---------------------------- MODULE Spec2Model ----------------------------
(***************************************************************************)
(* Model of the figure/caption extraction pipeline:                        *)
(*   src/src/image_extraction.py  (class ImageExtraction)                  *)
(*   src/src/pdf_to_images.py     (class PDFToImages)                      *)
(*                                                                         *)
(* Optional[...] fields are modelled as sequences of length 0 (None) or 1  *)
(* (the value).  A layout block is a record [id, type, coordinates]; id is *)
(* the block's position in the detector's output and stands for the        *)
(* identity of the Python object.  Coordinates are integer pixels.         *)
(* Tolerances are given in percent (0.2 is 20).  The code computes the     *)
(* window edges in binary64 floating point; the model computes the same    *)
(* rounded products with integers (see upper_edge and lower_edge).         *)
(***************************************************************************)
EXTENDS Integers, Sequences, FiniteSets, TLC

VARIABLES
  disk,           \* image path -> layout the detector returns for that image
  page,           \* self.page          (None, or the image opened)
  layout,         \* self.layout        (None, or a sequence of blocks)
  text_blocks,    \* self.text_blocks   (None, or a sequence of blocks)
  figure_blocks,  \* self.figure_blocks
  title_blocks,   \* self.title_blocks
  ret,            \* outcome of the last call on the extractor
  layout_src,     \* history: image the stored layout was detected from
  blocks_src,     \* history: image whose layout the stored groups come from
  ever,           \* history: which steps have ever succeeded
  pdf,            \* the document handed to PDFToImages and its save failures
  image_list,     \* PDFToImages.image_list
  saved,          \* files written by image.save, in order
  pdf_ret,        \* outcome of PDFToImages(pdf_path)
  paths_ret       \* value returned by the last get_image_paths()

xvars == <<page, layout, text_blocks, figure_blocks, title_blocks, ret,
           layout_src, blocks_src, ever>>
pvars == <<pdf, image_list, saved, pdf_ret, paths_ret>>
vars  == <<disk, xvars, pvars>>

None == <<>>
Some(x) == <<x>>

----------------------------------------------------------------------------
(* Bounds and inputs                                                       *)

MaxBlocks == 4
NumImages == 3
MaxPages == 4

DefaultTolerance == 20
PadMargin == 5

Tolerances == {0, 15, DefaultTolerance}

PageSize == <<300, 200>>

(* Regions a detector can report: <<type, <<x1, y1, x2, y2>>>>.            *)
(* Fig1 with Tit1 is the matching pair of the specification; Tit2 lies     *)
(* above Fig1, Tit3 on the upper edge of both of Fig1's windows at         *)
(* tolerance 0.2, Tit5 on the upper edge of Fig1's horizontal window at    *)
(* tolerance 0.15; Tit4 starts on Fig2's bottom edge, at the left page     *)
(* edge and next to the right and bottom page edges.                       *)
(* Fig3 overlaps Fig1 and shares its titles.                               *)
Fig1 == <<"Figure", <<100, 60, 300, 95>>>>
Fig2 == <<"Figure", <<0, 150, 300, 190>>>>
Fig3 == <<"Figure", <<110, 62, 280, 98>>>>
Tit1 == <<"Title", <<100, 100, 150, 120>>>>
Tit2 == <<"Title", <<100, 40, 250, 55>>>>
Tit3 == <<"Title", <<120, 114, 200, 130>>>>
Tit4 == <<"Title", <<0, 190, 298, 199>>>>
Tit5 == <<"Title", <<115, 109, 180, 125>>>>
Txt1 == <<"Text", <<10, 30, 290, 50>>>>
Tab1 == <<"Table", <<10, 130, 90, 145>>>>

Regions == {Fig1, Fig2, Fig3, Tit1, Tit3, Tit4, Txt1, Tab1}
Titles == {Tit1, Tit2, Tit3, Tit4, Tit5}
FigureBoxes == {r[2] : r \in {q \in Regions : q[1] = "Figure"}}

MkLayout(rs) ==
  [i \in 1..Len(rs) |-> [id |-> i, type |-> rs[i][1], coordinates |-> rs[i][2]]]

(* A detection reports each region at most once.                           *)
Distinct(rs) == \A i, j \in DOMAIN rs : rs[i] = rs[j] => i = j

Layouts ==
  {MkLayout(rs) :
     rs \in {q \in UNION {[1..k -> Regions] : k \in 0..MaxBlocks} : Distinct(q)}}

(* The pages of the multi-page scenario: image i holds SamplePage(i).      *)
SamplePage(i) ==
  CASE i % 3 = 1 -> MkLayout(<<Fig1, Txt1, Tit3, Tit1, Tab1>>)
    [] i % 3 = 2 -> MkLayout(<<Tit4, Fig2>>)
    [] OTHER     -> MkLayout(<<Txt1>>)

MissingPath == 0
Paths == DOMAIN disk \cup {MissingPath}

----------------------------------------------------------------------------
(* ImageExtraction                                                         *)

(* What a call did: the method, how it ended ("ok" or the exception       *)
(* raised), the value returned, the arguments, and the collaborator calls  *)
(* it made.                                                                *)
Ret(op, status, value, args, trace) ==
  [op |-> op, status |-> status, value |-> value, args |-> args, trace |-> trace]

NoTitle == [sentinel |-> "No title block found"]

(* textblock.crop_image(np.array(self.page)): the sub-image of a page is   *)
(* identified by the page and the box handed to crop_image.                *)
crop_image(coordinates, pg) == [page |-> pg, box |-> coordinates]

(* self.ocr_agent.detect(segment_image): the text read off that image.     *)
ocr_detect(segment_image) == [text_of |-> segment_image]

Max(a, b) == IF a >= b THEN a ELSE b

(* title.pad(left, right, top, bottom) of the layout library, called with  *)
(* its default safe_mode: the left and top edges stop at 0, the right and  *)
(* bottom edges are moved out unconditionally.                             *)
pad(c, left, right, top, bottom) ==
  <<Max(0, c[1] - left), Max(0, c[2] - top), c[3] + right, c[4] + bottom>>

(* Binary64 arithmetic of the window edges.  With t = p/100, the code      *)
(* computes fl(c * fl(1 - fl(t))) and fl(c * fl(1 + fl(t))) and compares   *)
(* them with the title's coordinate T.  For integer c and T only the case  *)
(* where the exact product c*(100 -+ p)/100 equals T depends on rounding;  *)
(* there the outcome is decided by the representation error of the factor  *)
(* fl(1 -+ fl(t)) against half the spacing of the doubles next to T.       *)
(* Errors are counted in units of 2^-59 / 100.                             *)
RECURSIVE Pow2(_)
Pow2(n) == IF n = 0 THEN 1 ELSE 2 * Pow2(n - 1)

RECURSIVE PowMod(_, _)
PowMod(k, M) == IF k = 0 THEN 1 % M ELSE (2 * PowMod(k - 1, M)) % M

(* The binade of n/100 for n in 1..100: the least j with 2^j * n >= 100.   *)
RECURSIVE BinadeFrom(_, _)
BinadeFrom(n, j) == IF Pow2(j) * n >= 100 THEN j ELSE BinadeFrom(n, j + 1)

Binade(n) == BinadeFrom(n, 0)

(* fl(p/100) = m * 2^-(52+j), rounded to nearest, ties to even: its error  *)
(* against p/100 and m modulo 2^(j+1).                                     *)
TolFloat(p) ==
  LET j    == Binade(p)
      M    == 100 * Pow2(j + 1)
      P    == (p * PowMod(52 + j, M)) % M
      s    == P % 100
      qlow == P \div 100
      up   == IF s > 50 \/ (s = 50 /\ qlow % 2 = 1) THEN 1 ELSE 0
  IN  [err |-> (100 * up - s) * Pow2(7 - j),
       mlow |-> ((qlow + up) % Pow2(j + 1)) * Pow2(7 - j)]

(* Rounding to a multiple of G, ties to even, of a number known modulo 2G: *)
(* the amount added.                                                       *)
RoundErr(X, G) ==
  LET rho == X % G
      odd == (X \div G) % 2 = 1
  IN  IF 2 * rho > G \/ (2 * rho = G /\ odd) THEN G - rho ELSE 0 - rho

(* Error of fl(1 + fl(p/100)) against (100 + p)/100.                       *)
ErrPlusOf(p) ==
  IF p = 0 \/ p = 100 THEN 0
  ELSE LET t == TolFloat(p)
       IN  t.err + 100 * RoundErr(t.mlow % 256, 128)

ErrPlusTable == [p \in 0..100 |-> ErrPlusOf(p)]

ErrPlus(p) == ErrPlusTable[p]

(* Error of fl(1 - fl(p/100)) against (100 - p)/100.                       *)
ErrMinusOf(p) ==
  IF p = 0 \/ p = 100 THEN 0
  ELSE LET t == TolFloat(p)
           G == Pow2(7 - Binade(100 - p))
       IN  0 - t.err + 100 * RoundErr((256 - (t.mlow % 256)) % (2 * G), G)

ErrMinusTable == [p \in 0..100 |-> ErrMinusOf(p)]

ErrMinus(p) == ErrMinusTable[p]

(* Twice the half-spacing of the doubles just below T (T >= 1).            *)
RECURSIVE SpacingBelow(_, _)
SpacingBelow(T, h) == IF h >= 6400 * T THEN h ELSE SpacingBelow(T, 2 * h)

(* Twice the half-spacing of the doubles just above T (T >= 1).            *)
RECURSIVE SpacingAbove(_, _)
SpacingAbove(T, h) == IF 2 * h > 12800 * T THEN h ELSE SpacingAbove(T, 2 * h)

(* T <= c * (1 + tolerance), as Python evaluates it.                       *)
upper_edge(c, T, p) ==
  LET D == c * (100 + p) - 100 * T
  IN  \/ D > 0
      \/ D = 0 /\ (T = 0 \/ 2 * c * ErrPlus(p) >= 0 - SpacingBelow(T, 6400))

(* c * (1 - tolerance) <= T, as Python evaluates it.                       *)
lower_edge(c, T, p) ==
  LET D == c * (100 - p) - 100 * T
  IN  \/ D < 0
      \/ D = 0 /\ (T = 0 \/ 2 * c * ErrMinus(p) <= SpacingAbove(T, 12800))

x_match(c, block, x_tolerance) ==
  /\ lower_edge(c[1], block.coordinates[1], x_tolerance)
  /\ upper_edge(c[1], block.coordinates[1], x_tolerance)

y_match(c, block, y_tolerance) ==
  /\ c[4] <= block.coordinates[2]
  /\ upper_edge(c[4], block.coordinates[2], y_tolerance)

(* The for loop of identify_title from position i on.                      *)
RECURSIVE title_loop(_, _, _, _, _)
title_loop(blocks, i, c, x_tolerance, y_tolerance) ==
  IF i > Len(blocks) THEN NoTitle
  ELSE IF x_match(c, blocks[i], x_tolerance) /\ y_match(c, blocks[i], y_tolerance)
       THEN blocks[i]
       ELSE title_loop(blocks, i + 1, c, x_tolerance, y_tolerance)

title_blocks_is_none(t) == t = None

(* Variant: the first title is read before the loop, which raises on an    *)
(* empty group.                                                            *)
identify_title_result_reads_first(titles, c, x_tolerance, y_tolerance) ==
  IF titles = None
  THEN Ret("identify_title", "ValueError", None,
           <<c, x_tolerance, y_tolerance>>, None)
  ELSE IF Len(titles[1]) = 0
  THEN Ret("identify_title", "Exception", None,
           <<c, x_tolerance, y_tolerance>>, None)
  ELSE Ret("identify_title", "ok",
           title_loop(titles[1], 1, c, x_tolerance, y_tolerance),
           <<c, x_tolerance, y_tolerance>>, None)

(* identify_title as a function of self.title_blocks and its arguments.    *)
(* Iterating None inside the try raises, and is re-raised as Exception.    *)
identify_title_result(titles, c, x_tolerance, y_tolerance) ==
  IF title_blocks_is_none(titles)
  THEN Ret("identify_title", "ValueError", None,
           <<c, x_tolerance, y_tolerance>>, None)
  ELSE IF titles = None
  THEN Ret("identify_title", "Exception", None,
           <<c, x_tolerance, y_tolerance>>, None)
  ELSE Ret("identify_title", "ok",
           title_loop(titles[1], 1, c, x_tolerance, y_tolerance),
           <<c, x_tolerance, y_tolerance>>, None)

(* Variant: titles are filed under text_blocks.                            *)
categorize_title_as_text(acc, block) ==
  IF block.type = "Figure"
  THEN [acc EXCEPT !.figure = Append(@, block)]
  ELSE IF block.type \in {"Text", "Title"}
  THEN [acc EXCEPT !.text = Append(@, block)]
  ELSE acc

(* One iteration of the for loop of return_blocks.                         *)
categorize(acc, block) ==
  IF block.type = "Figure"
  THEN [acc EXCEPT !.figure = Append(@, block)]
  ELSE IF block.type = "Text"
  THEN [acc EXCEPT !.text = Append(@, block)]
  ELSE IF block.type = "Title"
  THEN [acc EXCEPT !.title = Append(@, block)]
  ELSE acc

RECURSIVE categorize_loop(_, _, _)
categorize_loop(lay, i, acc) ==
  IF i > Len(lay) THEN acc
  ELSE categorize_loop(lay, i + 1, categorize(acc, lay[i]))

(* Variant: return_blocks does not look at self.layout first.              *)
layout_is_none_unchecked(l) == FALSE

(* The guards at the head of return_blocks, get_text_and_image, get_image. *)
layout_is_none(l) == l = None

figure_blocks_is_none(f) == f = None

page_is_none(p) == p = None

(* What can go wrong while one figure-title pair is processed; the calls   *)
(* take an outcome for every figure that has a title.                      *)
(* title_prep_fails: title.pad or np.array(self.page) raises, before       *)
(* crop_image is called; title_crop_fails: crop_image raises.              *)
Outcomes ==
  {"ok", "title_prep_fails", "title_crop_fails", "ocr_fails", "figure_crop_fails"}

(* Variant: no inner try, a failing crop or OCR call leaves the loop.       *)
pair_step_uncaught(acc, figure, title, outcome, pg) ==
  IF title /= NoTitle
  THEN LET box == pad(title.coordinates, PadMargin, PadMargin, PadMargin, PadMargin)
           segment_image == crop_image(box, pg)
           cropped == [acc EXCEPT !.crops = Append(@, box)]
           read == [cropped EXCEPT !.ocr_calls = Append(@, segment_image)]
       IN  IF outcome = "title_prep_fails"
           THEN [acc EXCEPT !.raised = TRUE]
           ELSE IF outcome = "title_crop_fails"
           THEN [cropped EXCEPT !.raised = TRUE]
           ELSE IF outcome \in {"ocr_fails", "figure_crop_fails"}
           THEN [read EXCEPT !.raised = TRUE]
           ELSE [read EXCEPT !.pairs =
                   Append(@, <<ocr_detect(segment_image),
                               crop_image(figure.coordinates, pg)>>)]
  ELSE [acc EXCEPT !.warnings = @ + 1]

(* One iteration of the second loop of get_text_and_image; acc holds       *)
(* text_and_image (pairs), the boxes handed to crop_image for titles, the  *)
(* images handed to the OCR agent, the number of warnings logged, and      *)
(* whether an exception left the iteration.  The inner try catches every   *)
(* failure of the crops and of the OCR call, so none does.                 *)
pair_step(acc, figure, title, outcome, pg) ==
  IF title /= NoTitle
  THEN LET box == pad(title.coordinates, PadMargin, PadMargin, PadMargin, PadMargin)
           segment_image == crop_image(box, pg)
           cropped == [acc EXCEPT !.crops = Append(@, box)]
           read == [cropped EXCEPT !.ocr_calls = Append(@, segment_image)]
       IN  IF outcome = "title_prep_fails"
           THEN [acc EXCEPT !.warnings = @ + 1]
           ELSE IF outcome = "title_crop_fails"
           THEN [cropped EXCEPT !.warnings = @ + 1]
           ELSE IF outcome \in {"ocr_fails", "figure_crop_fails"}
           THEN [read EXCEPT !.warnings = @ + 1]
           ELSE [read EXCEPT !.pairs =
                   Append(@, <<ocr_detect(segment_image),
                               crop_image(figure.coordinates, pg)>>)]
  ELSE [acc EXCEPT !.warnings = @ + 1]

RECURSIVE pair_loop(_, _, _, _, _)
pair_loop(figures_title, i, outcome, pg, acc) ==
  IF i > Len(figures_title) \/ acc.raised THEN acc
  ELSE pair_loop(figures_title, i + 1, outcome, pg,
                 pair_step(acc, figures_title[i][1], figures_title[i][2],
                           outcome[i], pg))

(* Variant: every figure is given the title of the first figure.           *)
figures_title_of_first(figs, titles) ==
  [i \in 1..Len(figs) |->
     <<figs[i], title_loop(titles, 1, figs[1].coordinates,
                           DefaultTolerance, DefaultTolerance)>>]

(* The first loop of get_text_and_image: each figure with the result of    *)
(* identify_title(figure.coordinates) under the default tolerances.        *)
figures_title_of(figs, titles) ==
  [i \in 1..Len(figs) |->
     <<figs[i], title_loop(titles, 1, figs[i].coordinates,
                           DefaultTolerance, DefaultTolerance)>>]

EmptyAcc ==
  [pairs |-> <<>>, crops |-> <<>>, ocr_calls |-> <<>>, warnings |-> 0,
   raised |-> FALSE]

(* get_text_and_image as a function of the fields it reads.  Iterating a   *)
(* None group, or identify_title raising for want of title_blocks, is      *)
(* caught by the outer try and re-raised as Exception.  With no page       *)
(* loaded every title crop that is reached raises inside the inner try; a  *)
(* failure of pad or np.array still comes first and hands no box over.     *)
get_text_and_image_result(figs, titles, pg, outcome) ==
  IF figure_blocks_is_none(figs)
  THEN Ret("get_text_and_image", "ValueError", None, outcome, EmptyAcc)
  ELSE IF figs = None \/ (titles = None /\ Len(figs[1]) > 0)
  THEN Ret("get_text_and_image", "Exception", None, outcome, EmptyAcc)
  ELSE LET ft  == IF Len(figs[1]) = 0 THEN <<>>
                  ELSE figures_title_of(figs[1], titles[1])
           eff == IF pg = None
                  THEN [i \in DOMAIN outcome |->
                          IF outcome[i] = "title_prep_fails" THEN outcome[i]
                          ELSE "title_crop_fails"]
                  ELSE outcome
           img == IF pg = None THEN None ELSE pg[1]
           acc == pair_loop(ft, 1, eff, img, EmptyAcc)
       IN  IF acc.raised
           THEN Ret("get_text_and_image", "Exception", None, outcome, acc)
           ELSE Ret("get_text_and_image", "ok", acc.pairs, outcome, acc)

----------------------------------------------------------------------------
(* Operations on the extractor                                             *)

get_layout(image_path, outcome) ==
  /\ IF image_path \notin DOMAIN disk
     THEN /\ ret' = Ret("get_layout", "FileNotFoundError", None, image_path, None)
          /\ UNCHANGED <<page, layout, layout_src, ever>>
     ELSE IF outcome = "open_fails"
     THEN /\ ret' = Ret("get_layout", "Exception", None, image_path, None)
          /\ UNCHANGED <<page, layout, layout_src, ever>>
     ELSE IF outcome = "detect_fails"
     THEN /\ page' = Some(image_path)
          /\ ever' = [ever EXCEPT !.page = TRUE]
          /\ ret' = Ret("get_layout", "Exception", None, image_path, None)
          /\ UNCHANGED <<layout, layout_src>>
     ELSE /\ page' = Some(image_path)
          /\ layout' = Some(disk[image_path])
          /\ layout_src' = Some(image_path)
          /\ ever' = [ever EXCEPT !.page = TRUE, !.layout = TRUE]
          /\ ret' = Ret("get_layout", "ok", None, image_path, None)
  /\ UNCHANGED <<disk, text_blocks, figure_blocks, title_blocks, blocks_src, pvars>>

get_image(textblock, outcome) ==
  /\ ret' = IF page_is_none(page)
            THEN Ret("get_image", "ValueError", None, textblock, None)
            ELSE IF page = None \/ outcome = "crop_fails"
            THEN Ret("get_image", "Exception", None, textblock, None)
            ELSE Ret("get_image", "ok",
                     crop_image(textblock.coordinates, page[1]), textblock, None)
  /\ UNCHANGED <<disk, page, layout, text_blocks, figure_blocks, title_blocks,
                 layout_src, blocks_src, ever, pvars>>

return_blocks ==
  /\ IF layout_is_none(layout)
     THEN /\ ret' = Ret("return_blocks", "ValueError", None, None, None)
          /\ UNCHANGED <<text_blocks, figure_blocks, title_blocks, blocks_src, ever>>
     ELSE IF layout = None
     THEN /\ ret' = Ret("return_blocks", "Exception", None, None, None)
          /\ UNCHANGED <<text_blocks, figure_blocks, title_blocks, blocks_src, ever>>
     ELSE LET groups == categorize_loop(layout[1], 1,
                          [text |-> <<>>, figure |-> <<>>, title |-> <<>>])
          IN  /\ text_blocks' = Some(groups.text)
              /\ figure_blocks' = Some(groups.figure)
              /\ title_blocks' = Some(groups.title)
              /\ blocks_src' = layout_src
              /\ ever' = [ever EXCEPT !.blocks = TRUE]
              /\ ret' = Ret("return_blocks", "ok", None, None, None)
  /\ UNCHANGED <<disk, page, layout, layout_src, pvars>>

identify_title(c, x_tolerance, y_tolerance) ==
  /\ ret' = identify_title_result(title_blocks, c, x_tolerance, y_tolerance)
  /\ UNCHANGED <<disk, page, layout, text_blocks, figure_blocks, title_blocks,
                 layout_src, blocks_src, ever, pvars>>

get_text_and_image(outcome) ==
  /\ ret' = get_text_and_image_result(figure_blocks, title_blocks, page, outcome)
  /\ UNCHANGED <<disk, page, layout, text_blocks, figure_blocks, title_blocks,
                 layout_src, blocks_src, ever, pvars>>

(* The figures whose title is found, and so get a crop and an OCR call    *)
(* that can fail.                                                          *)
MatchedFigures ==
  IF figure_blocks = None \/ title_blocks = None THEN {}
  ELSE {i \in 1..Len(figure_blocks[1]) :
          title_loop(title_blocks[1], 1, figure_blocks[1][i].coordinates,
                     DefaultTolerance, DefaultTolerance) /= NoTitle}

Next ==
  \/ \E p \in Paths, o \in {"ok", "open_fails", "detect_fails"} : get_layout(p, o)
  \/ \E c \in FigureBoxes, o \in {"ok", "crop_fails"} :
       get_image([id |-> 1, type |-> "Figure", coordinates |-> c], o)
  \/ return_blocks
  \/ \E c \in FigureBoxes, xt \in Tolerances, yt \in Tolerances :
       identify_title(c, xt, yt)
  \/ \E o \in [MatchedFigures -> Outcomes] : get_text_and_image(o)

InitExtractor ==
  /\ page = None
  /\ layout = None
  /\ text_blocks = None
  /\ figure_blocks = None
  /\ title_blocks = None
  /\ ret = Ret("__init__", "ok", None, None, None)
  /\ layout_src = None
  /\ blocks_src = None
  /\ ever = [page |-> FALSE, layout |-> FALSE, blocks |-> FALSE]

InitPdfIdle ==
  /\ pdf = [exists |-> FALSE, convert_ok |-> FALSE, pages |-> 0, save_fails |-> {}]
  /\ image_list = None
  /\ saved = <<>>
  /\ pdf_ret = None
  /\ paths_ret = None

(* Several pages on disk, processed with one extractor.                    *)
Init ==
  /\ disk = [i \in 1..NumImages |-> SamplePage(i)]
  /\ InitExtractor
  /\ InitPdfIdle

Spec == Init /\ [][Next]_vars

(* The extractor after get_layout succeeded on the one page on disk.        *)
Loaded ==
  /\ page = Some(1)
  /\ layout = Some(disk[1])
  /\ text_blocks = None
  /\ figure_blocks = None
  /\ title_blocks = None
  /\ ret = Ret("get_layout", "ok", None, 1, None)
  /\ layout_src = Some(1)
  /\ blocks_src = None
  /\ ever = [page |-> TRUE, layout |-> TRUE, blocks |-> FALSE]

(* One page holding any layout of up to MaxBlocks regions, loaded; then    *)
(* partition and extract.                                                  *)
InitExtract ==
  /\ disk \in [{1} -> Layouts]
  /\ Loaded
  /\ InitPdfIdle

NextExtract ==
  \/ return_blocks
  \/ \E o \in [MatchedFigures -> Outcomes] : get_text_and_image(o)

SpecExtract == InitExtract /\ [][NextExtract]_vars

(* One page holding any sequence of up to MaxBlocks titles, loaded; then   *)
(* partition and look titles up.                                           *)
TitleLayouts ==
  {MkLayout(rs) : rs \in UNION {[1..k -> Titles] : k \in 0..MaxBlocks}}

InitTitle ==
  /\ disk \in [{1} -> TitleLayouts]
  /\ Loaded
  /\ InitPdfIdle

NextTitle ==
  \/ return_blocks
  \/ \E c \in FigureBoxes, xt \in Tolerances, yt \in Tolerances :
       identify_title(c, xt, yt)

SpecTitle == InitTitle /\ [][NextTitle]_vars

----------------------------------------------------------------------------
(* PDFToImages                                                             *)

(* f'page{i}.jpg'                                                          *)
filename(i) == [stem |-> "page", index |-> i, ext |-> ".jpg"]

(* Variant: a failing save is logged and the loop goes on.                 *)
save_page_goes_on(acc, i, save_fails) ==
  LET named == [acc EXCEPT !.image_list = Append(@, filename(i))]
  IN  IF i \in save_fails
      THEN named
      ELSE [named EXCEPT !.saved = Append(@, filename(i))]

(* One iteration of the loop of _convert_and_save_images on page i: the    *)
(* name is appended before image.save runs, and a failing save raises.     *)
save_page(acc, i, save_fails) ==
  LET named == [acc EXCEPT !.image_list = Append(@, filename(i))]
  IN  IF i \in save_fails
      THEN [named EXCEPT !.failed_at = Some(i)]
      ELSE [named EXCEPT !.saved = Append(@, filename(i))]

RECURSIVE convert_and_save_images(_, _, _, _)
convert_and_save_images(n, i, save_fails, acc) ==
  IF i >= n \/ acc.failed_at /= None THEN acc
  ELSE convert_and_save_images(n, i + 1, save_fails, save_page(acc, i, save_fails))

(* PDFToImages(pdf_path)                                                   *)
PDFToImages_init ==
  /\ pdf_ret = None
  /\ IF ~pdf.exists
     THEN /\ pdf_ret' = Some([status |-> "FileNotFoundError", page |-> None])
          /\ UNCHANGED <<image_list, saved>>
     ELSE IF ~pdf.convert_ok
     THEN /\ pdf_ret' = Some([status |-> "Exception", page |-> None])
          /\ UNCHANGED <<image_list, saved>>
     ELSE LET run == convert_and_save_images(pdf.pages, 0, pdf.save_fails,
                       [image_list |-> <<>>, saved |-> <<>>, failed_at |-> None])
          IN  /\ image_list' = Some(run.image_list)
              /\ saved' = run.saved
              /\ pdf_ret' = IF run.failed_at = None
                            THEN Some([status |-> "ok", page |-> None])
                            ELSE Some([status |-> "Exception", page |-> run.failed_at])
  /\ UNCHANGED <<pdf, paths_ret, disk, xvars>>

(* get_image_paths(), on an object whose construction returned.            *)
get_image_paths ==
  /\ pdf_ret /= None
  /\ pdf_ret[1].status = "ok"
  /\ paths_ret' = Some(image_list[1])
  /\ UNCHANGED <<pdf, image_list, saved, pdf_ret, disk, xvars>>

NextPdf ==
  \/ PDFToImages_init
  \/ get_image_paths

(* The document on disk: whether it exists, whether convert_from_path     *)
(* succeeds, its pages and the pages whose save raises.                     *)
InitPdf ==
  /\ pdf \in {d \in [exists : BOOLEAN, convert_ok : BOOLEAN, pages : 0..MaxPages,
                      save_fails : SUBSET (0..(MaxPages - 1))] :
                /\ d.save_fails \subseteq 0..(d.pages - 1)
                /\ (~d.exists => d.convert_ok)}
  /\ image_list = None
  /\ saved = <<>>
  /\ pdf_ret = None
  /\ paths_ret = None
  /\ disk = [i \in 1..NumImages |-> SamplePage(i)]
  /\ InitExtractor

SpecPdf == InitPdf /\ [][NextPdf]_vars

----------------------------------------------------------------------------
(* Properties                                                              *)

Range(f) == {f[i] : i \in DOMAIN f}

(* The two tolerance conditions of the specification for figure box F and  *)
(* title block T, tolerances in percent, in exact arithmetic.              *)
Satisfies(F, T, xt, yt) ==
  /\ F[1] * (100 - xt) <= 100 * T.coordinates[1]
  /\ 100 * T.coordinates[1] <= F[1] * (100 + xt)
  /\ F[4] <= T.coordinates[2]
  /\ 100 * T.coordinates[2] <= F[4] * (100 + yt)

(* C1: identify_title(F, xt, yt) on a title group G returns G[i] exactly   *)
(* when G[i] satisfies both tolerance conditions and no earlier title of G *)
(* does; it returns the sentinel exactly when no title of G satisfies      *)
(* both; the result is a member of G or the sentinel.                      *)
C1_FirstMatch ==
  (ret.op = "identify_title" /\ title_blocks /= None) =>
    LET G  == title_blocks[1]
        F  == ret.args[1]
        xt == ret.args[2]
        yt == ret.args[3]
    IN  /\ ret.status = "ok"
        /\ \A i \in 1..Len(G) :
             (ret.value = G[i]) <=>
               (/\ Satisfies(F, G[i], xt, yt)
                /\ \A j \in 1..(i - 1) : ~Satisfies(F, G[j], xt, yt))
        /\ (ret.value = NoTitle) <=>
             (\A i \in 1..Len(G) : ~Satisfies(F, G[i], xt, yt))
        /\ ret.value = NoTitle \/ ret.value \in Range(G)

(* C6: on an empty, initialized title group identify_title returns the     *)
(* sentinel, for every figure box and tolerance pair, and does not raise.  *)
C6_EmptyGroup ==
  (ret.op = "identify_title" /\ title_blocks = Some(<<>>)) =>
    (ret.status = "ok" /\ ret.value = NoTitle)

C6_Witness ==
  /\ ret.op = "identify_title"
  /\ title_blocks = Some(<<>>)
  /\ ret.args[2] /= DefaultTolerance

Recognized == {"Text", "Title", "Figure"}

(* The groups as a function of the type tag.                               *)
Group(t) ==
  CASE t = "Text"   -> text_blocks[1]
    [] t = "Title"  -> title_blocks[1]
    [] t = "Figure" -> figure_blocks[1]

(* C3: after return_blocks succeeds, every region of the layout with type  *)
(* Text, Title or Figure occurs exactly once in the three groups, in the   *)
(* group of its type; each group keeps the layout's relative order and     *)
(* holds only regions of the layout; other regions occur in no group.      *)
C3_Partition ==
  (ret.op = "return_blocks" /\ ret.status = "ok") =>
    LET L == layout[1]
        Occ(b) == {<<t, k>> \in Recognized \X (1..Len(L)) :
                     k <= Len(Group(t)) /\ Group(t)[k] = b}
    IN  /\ \A i \in 1..Len(L) :
             IF L[i].type \in Recognized
             THEN /\ Cardinality(Occ(L[i])) = 1
                  /\ \A o \in Occ(L[i]) : o[1] = L[i].type
             ELSE Occ(L[i]) = {}
        /\ \A t \in Recognized :
             /\ Len(Group(t)) <= Len(L)
             /\ \A k \in 1..Len(Group(t)) : Group(t)[k] \in Range(L)
             /\ \A k, m \in 1..Len(Group(t)) :
                  k < m => Group(t)[k].id < Group(t)[m].id

(* A partition of a layout with two titles, a figure and a table.          *)
C3_Witness ==
  /\ ret.op = "return_blocks"
  /\ ret.status = "ok"
  /\ Len(title_blocks[1]) = 2
  /\ Len(figure_blocks[1]) = 1
  /\ \E i \in 1..Len(layout[1]) : layout[1][i].type = "Table"

(* C2: get_text_and_image after partitioning returns normally whatever     *)
(* figures lack a title and whatever crops or OCR calls fail; it returns   *)
(* at most one pair per figure block, each holding the crop of a figure    *)
(* block of the figure group.                                              *)
C2_BatchSurvives ==
  (ret.op = "get_text_and_image" /\ figure_blocks /= None) =>
    /\ ret.status = "ok"
    /\ Len(ret.value) <= Len(figure_blocks[1])
    /\ \A k \in 1..Len(ret.value) :
         \E i \in 1..Len(figure_blocks[1]) :
           ret.value[k][2] = crop_image(figure_blocks[1][i].coordinates, page[1])

(* A batch in which the first figure's processing failed and a later       *)
(* figure still produced a pair.                                           *)
C2_Witness ==
  /\ ret.op = "get_text_and_image"
  /\ ret.status = "ok"
  /\ 1 \in DOMAIN ret.args
  /\ ret.args[1] /= "ok"
  /\ Len(ret.value) >= 1

(* The title identify_title finds for figure i of the figure group.        *)
TitleOf(i) ==
  title_loop(title_blocks[1], 1, figure_blocks[1][i].coordinates,
             DefaultTolerance, DefaultTolerance)

SegmentOf(i) ==
  crop_image(pad(TitleOf(i).coordinates, PadMargin, PadMargin, PadMargin,
                 PadMargin), page[1])

(* C9: the pairs returned are, in figure_blocks order, one per figure      *)
(* whose title was found and whose title crop, OCR and figure crop all     *)
(* succeeded: the OCR text of that figure's title with that figure's       *)
(* crop.  OCR runs once per figure with a title whose title crop           *)
(* succeeded, on that title's image, and for no other figure.              *)
C9_ExactPairs ==
  (ret.op = "get_text_and_image" /\ ret.status = "ok") =>
    LET n == Len(figure_blocks[1])
        Matched == {i \in 1..n : TitleOf(i) /= NoTitle}
        Good == {i \in Matched : ret.args[i] = "ok"}
        Read == {i \in Matched :
                   ret.args[i] \notin {"title_prep_fails", "title_crop_fails"}}
        Rank(S, i) == Cardinality({j \in S : j <= i})
    IN  /\ Len(ret.value) = Cardinality(Good)
        /\ \A i \in Good :
             ret.value[Rank(Good, i)] =
               <<ocr_detect(SegmentOf(i)),
                 crop_image(figure_blocks[1][i].coordinates, page[1])>>
        /\ Len(ret.trace.ocr_calls) = Cardinality(Read)
        /\ \A i \in Read : ret.trace.ocr_calls[Rank(Read, i)] = SegmentOf(i)

(* Three figures: the first without a title, the second with a failed     *)
(* figure crop, the third paired.                                          *)
C9_Witness ==
  /\ ret.op = "get_text_and_image"
  /\ ret.status = "ok"
  /\ Len(figure_blocks[1]) = 3
  /\ DOMAIN ret.args = {2, 3}
  /\ ret.args[2] = "figure_crop_fails"
  /\ ret.args[3] = "ok"
  /\ Len(ret.value) = 1

(* C7: every box get_text_and_image hands to crop_image for a title lies   *)
(* within the page: no coordinate below 0, none beyond the page width or   *)
(* height.                                                                 *)
C7_CropWithinPage ==
  (ret.op = "get_text_and_image" /\ ret.status = "ok") =>
    \A k \in 1..Len(ret.trace.crops) :
      LET box == ret.trace.crops[k]
      IN  /\ 0 <= box[1]
          /\ 0 <= box[2]
          /\ box[3] <= PageSize[1]
          /\ box[4] <= PageSize[2]

State == <<page, layout, text_blocks, figure_blocks, title_blocks>>

(* C4: a call made before the step it requires has ever succeeded raises   *)
(* ValueError and leaves page, layout and the three groups as they were:   *)
(* return_blocks before a successful get_layout, identify_title and        *)
(* get_text_and_image before a successful return_blocks, get_image before  *)
(* a page was loaded.                                                      *)
C4_NotInitialized ==
  [][/\ (ret'.op = "return_blocks" /\ ~ever.layout) =>
          (ret'.status = "ValueError" /\ State' = State)
     /\ (ret'.op \in {"identify_title", "get_text_and_image"} /\ ~ever.blocks) =>
          (ret'.status = "ValueError" /\ State' = State)
     /\ (ret'.op = "get_image" /\ ~ever.page) =>
          (ret'.status = "ValueError" /\ State' = State)]_vars

(* return_blocks refused although a page is loaded: its detection failed   *)
(* and none has succeeded before.                                          *)
C4_Witness ==
  /\ ret.op = "return_blocks"
  /\ ret.status = "ValueError"
  /\ page /= None
  /\ ~ever.layout

(* C5: return_blocks raises ValueError whenever the stored layout was not  *)
(* detected from the page now loaded.                                      *)
C5_StaleLayoutRefused ==
  (ret.op = "return_blocks" /\ (layout = None \/ layout_src /= page)) =>
    ret.status = "ValueError"

(* C10: whenever get_text_and_image returns pairs, the groups it used were *)
(* partitioned from the layout detected for the page now loaded.           *)
C10_GroupsOfLoadedPage ==
  (ret.op = "get_text_and_image" /\ ret.status = "ok" /\ ret.value /= <<>>) =>
    blocks_src = page

PageName(i) == [stem |-> "page", index |-> i, ext |-> ".jpg"]

(* C8: if the document converts and every save succeeds, construction      *)
(* returns, the files written are page0.jpg .. page(n-1).jpg in order and  *)
(* get_image_paths returns exactly that list; if the save of page i is the *)
(* first to fail, construction raises naming page i, pages 0..i-1 are the  *)
(* only ones written and no path list is ever returned.                    *)
C8_AllOrNothing ==
  /\ (pdf_ret /= None /\ pdf.exists /\ pdf.convert_ok) =>
       IF pdf.save_fails = {}
       THEN /\ pdf_ret[1].status = "ok"
            /\ saved = [k \in 1..pdf.pages |-> PageName(k - 1)]
       ELSE LET i == CHOOSE x \in pdf.save_fails : \A y \in pdf.save_fails : x <= y
            IN  /\ pdf_ret[1].status = "Exception"
                /\ pdf_ret[1].page = Some(i)
                /\ saved = [k \in 1..i |-> PageName(k - 1)]
  /\ paths_ret /= None =>
       /\ pdf_ret[1].status = "ok"
       /\ paths_ret[1] = [k \in 1..pdf.pages |-> PageName(k - 1)]
       /\ paths_ret[1] = saved

(* A conversion that wrote page 0, failed on page 1 and left the later     *)
(* pages alone.                                                            *)
C8_Witness ==
  /\ pdf_ret /= None
  /\ pdf_ret[1].status = "Exception"
  /\ pdf_ret[1].page = Some(1)
  /\ pdf.pages >= 3
  /\ Len(saved) = 1

============================================================================
